---- MODULE Spec2Model ----
(***************************************************************************)
(* baimax, src/data/mod.rs: the document model (File, Group, Account,      *)
(* AccountInfo, TransactionDetail, BaiDateTime, BaiDateOrTime), its        *)
(* structural queries, and File::process, the pipeline                     *)
(*     parse::file -> ast::Record::parse -> ast::convert::Converter.       *)
(* The modules parse, ast and ast::convert are not part of the source     *)
(* tree at hand; their behaviour is taken from the design document         *)
(* (sections 4.1, 4.2, 7 and 9) and is marked as such where it is defined. *)
(***************************************************************************)
EXTENDS Integers, Sequences, FiniteSets, TLC

VARIABLES
    pc,        \* position of File::process: "lex", "convert", "done", or "idle"
    consumed,  \* the raw records pulled from the record iterator so far
    exhausted, \* the record iterator returned None (the input has ended)
    conv,      \* the ast::convert::Converter threaded through fold_results
    result,    \* None, or Some(Result<File, FileProcessError>)
    subject,   \* the document-model value a structural query is applied to
    origin,    \* the value the query sequence started from
    answer     \* None, or Some(value the last query returned)

vars == <<pc, consumed, exhausted, conv, result, subject, origin, answer>>

----------------------------------------------------------------------------
(* Option<T> is a sequence of length at most one. *)
None == <<>>
Some(x) == <<x>>
IsSome(o) == Len(o) = 1
Unwrap(o) == o[1]
UnwrapOr(o, d) == IF IsSome(o) THEN o[1] ELSE d
Last(s) == s[Len(s)]
Front(s) == SubSeq(s, 1, Len(s) - 1)

----------------------------------------------------------------------------
(* Bound of the model. *)
MaxRecords == 8     \* records pulled from one transmission

(* Contents the fields of a transmission are drawn from. *)
Lines == {"l1", "l2"}            \* a continuation field
OwnLines == {"l0"}               \* the text field of a detail record itself
Numbers == {"A1", "A2"}          \* account numbers
Originators == {"O1"}            \* originator identities
Currencies == {"USD", "EUR", "GBP", "JPY", "CAD"}
Days == {1, 2}                   \* calendar dates
Times == {1, 2}                  \* times of day

----------------------------------------------------------------------------
(* chrono's NaiveDateTime: a calendar date and a time of day. *)
NaiveDateTime(date, time) == [date |-> date, time |-> time]

(* enum BaiDateTime { DateTime(NaiveDateTime), DateEndOfDay(NaiveDate) } *)
BaiDateTime_DateTime(dt) == [enum |-> "BaiDateTime", v |-> "DateTime", dt |-> dt]
BaiDateTime_DateEndOfDay(d) == [enum |-> "BaiDateTime", v |-> "DateEndOfDay", d |-> d]

(* impl From<NaiveDateTime> for BaiDateTime *)
BaiDateTime_from_datetime(datetime) == BaiDateTime_DateTime(datetime)

(* impl From<NaiveDate> for BaiDateTime *)
BaiDateTime_from_date(date) == BaiDateTime_DateEndOfDay(date)

(* BaiDateTime::date *)
BaiDateTime_date(self) ==
    IF self.v = "DateTime" THEN self.dt.date ELSE self.d

(* BaiDateTime::time *)
BaiDateTime_time(self) ==
    IF self.v = "DateTime" THEN Some(self.dt.time) ELSE None

(* enum BaiDateOrTime { Date(NaiveDate), DateTime(NaiveDateTime),          *)
(*                      DateEndOfDay(NaiveDate) }                          *)
BaiDateOrTime_Date(d) == [enum |-> "BaiDateOrTime", v |-> "Date", d |-> d]
BaiDateOrTime_DateTime(dt) == [enum |-> "BaiDateOrTime", v |-> "DateTime", dt |-> dt]
BaiDateOrTime_DateEndOfDay(d) == [enum |-> "BaiDateOrTime", v |-> "DateEndOfDay", d |-> d]

(* impl From<NaiveDate> for BaiDateOrTime *)
BaiDateOrTime_from_date(date) == BaiDateOrTime_Date(date)

(* From<BaiDateTime> with the end-of-day marker downgraded to a plain date. *)
BaiDateOrTime_from_eod_as_date(datetime) ==
    IF datetime.v = "DateTime"
    THEN BaiDateOrTime_DateTime(datetime.dt)
    ELSE BaiDateOrTime_Date(datetime.d)

(* impl From<BaiDateTime> for BaiDateOrTime *)
BaiDateOrTime_from(datetime) ==
    IF datetime.v = "DateTime"
    THEN BaiDateOrTime_DateTime(datetime.dt)
    ELSE BaiDateOrTime_DateEndOfDay(datetime.d)

(* BaiDateOrTime::date *)
BaiDateOrTime_date(self) ==
    CASE self.v = "Date" -> self.d
      [] self.v = "DateTime" -> self.dt.date
      [] self.v = "DateEndOfDay" -> self.d

(* BaiDateOrTime::date_time *)
BaiDateOrTime_date_time(self) ==
    CASE self.v = "Date" -> None
      [] self.v = "DateTime" -> Some(BaiDateTime_from_datetime(self.dt))
      [] self.v = "DateEndOfDay" -> Some(BaiDateTime_from_date(self.d))

----------------------------------------------------------------------------
(* FundsType::DistributedAvailD over DistributedAvailDistribution pairs;   *)
(* the other FundsType variants carry nothing a continuation extends.      *)
DistributedAvailDistribution(f) == [days |-> 1, amount |-> f]
DistributedAvailD(dists) == [funds |-> "DistributedAvailD", dists |-> dists]

(* enum AccountInfo { Summary { code, amount: Option<u64>, item_count,     *)
(* funds }, Status { code, amount: Option<i64>, funds } }                  *)
AccountInfo_Summary(amount, funds) ==
    [info |-> "Summary", code |-> "S1", amount |-> amount, item_count |-> None,
     funds |-> funds]
AccountInfo_Status(amount, funds) ==
    [info |-> "Status", code |-> "X", amount |-> amount, funds |-> funds]

(* struct TransactionDetail *)
TransactionDetail(code, funds, text) ==
    [code |-> code, amount |-> None, funds |-> funds, bank_ref_num |-> None,
     customer_ref_num |-> None, text |-> text]

(* struct Account *)
Account(number, currency, infos) ==
    [customer_account |-> number, currency |-> currency, infos |-> infos,
     transaction_details |-> <<>>]

(* struct Group *)
Group(originator, currency) ==
    [ultimate_receiver |-> None, originator |-> originator, status |-> "Update",
     as_of |-> BaiDateOrTime_from_date(1), currency |-> currency,
     as_of_date_mod |-> None, accounts |-> <<>>]

(* struct File *)
File(sender, receiver, ident) ==
    [sender |-> sender, receiver |-> receiver,
     creation |-> BaiDateTime_from_date(1),
     ident |-> ident, groups |-> <<>>]

----------------------------------------------------------------------------
(* 64-bit integers at their width, as four 16-bit limbs, low limb first.   *)
(* A u64 is its limbs; an i64 is a sign and the limbs of its magnitude.    *)
LimbBase == 2^16
LimbVals == {0, 1, 2^15 - 1, 2^15, 2^16 - 1}
U64 == [1..4 -> LimbVals]
Limbs(a, b, c, d) == [i \in 1..4 |-> CASE i = 1 -> a [] i = 2 -> b [] i = 3 -> c [] i = 4 -> d]
I64(neg, mag) == [neg |-> neg, mag |-> mag]

RECURSIVE AddCarry(_, _, _)
AddCarry(a, i, carry) ==
    IF i > 4 THEN <<>>
    ELSE <<(a[i] + carry) % LimbBase>> \o AddCarry(a, i + 1, (a[i] + carry) \div LimbBase)

(* 2^64 - a, for 0 < a < 2^64. *)
TwosComplement(a) == AddCarry([i \in 1..4 |-> LimbBase - 1 - a[i]], 1, 1)

(* `amount as i64` for amount: u64: the same 64 bits read as two's         *)
(* complement, negative once bit 63 is set.                                *)
u64_as_i64(amount) ==
    IF amount[4] < 2^15
    THEN I64(FALSE, amount)
    ELSE I64(TRUE, TwosComplement(amount))

(* penny's Money::new(amount: i64, currency) *)
Money_new(amount, currency) == [amount |-> amount, currency |-> currency]

(* Group::currency_def *)
Group_currency_def(self) == UnwrapOr(self.currency, "USD")

(* Account::currency_def with the group's currency ignored. *)
Account_currency_def_default(self, group_cur) == UnwrapOr(self.currency, "USD")

(* Account::currency_def *)
Account_currency_def(self, group_cur) == UnwrapOr(self.currency, group_cur)

(* AccountInfo::amount_money *)
AccountInfo_amount_money(self, account_cur) ==
    CASE self.info = "Summary" /\ IsSome(self.amount) ->
            Some(Money_new(u64_as_i64(Unwrap(self.amount)), account_cur))
      [] self.info = "Status" /\ IsSome(self.amount) ->
            Some(Money_new(Unwrap(self.amount), account_cur))
      [] OTHER -> None

----------------------------------------------------------------------------
(* The raw records parse::file hands over, one per physical line.  ok says *)
(* whether the line's fields match the grammar of its type code; tail is   *)
(* the multi-valued field the line ends in ("text", "dist" or "none").     *)
Raw(type, ok, tail, body) == [type |-> type, ok |-> ok, tail |-> tail, body |-> body]

NoBody == [line |-> None]

FileHeaders == {Raw("FileHeader", TRUE, "none", File("S", "R", 1))}
GroupHeaders ==
    {Raw("GroupHeader", TRUE, "none", Group(o, None)) :
        o \in {None} \cup {Some(x) : x \in Originators}}
AccountIdents ==
    {Raw("AccountIdent", TRUE, "none", Account(n, None, <<>>)) : n \in Numbers}
    \cup {Raw("AccountIdent", TRUE, "dist",
              Account(n, None, <<AccountInfo_Summary(None, Some(DistributedAvailD(<<>>)))>>)) :
            n \in Numbers}
Details ==
    {Raw("TransactionDetail", TRUE, "text", TransactionDetail("D1", None, None))}
    \cup {Raw("TransactionDetail", TRUE, "text",
              TransactionDetail("D1", None, Some(<<l>>))) : l \in OwnLines}
    \cup {Raw("TransactionDetail", TRUE, "dist",
              TransactionDetail("D1", Some(DistributedAvailD(<<>>)), None))}
Continuations == {Raw("Continuation", TRUE, "none", [line |-> Some(l)]) : l \in Lines}
Trailers ==
    {Raw(t, TRUE, "none", NoBody) : t \in {"AccountTrailer", "GroupTrailer", "FileTrailer"}}
RecordTypes ==
    {"FileHeader", "GroupHeader", "AccountIdent", "TransactionDetail",
     "Continuation", "AccountTrailer", "GroupTrailer", "FileTrailer"}
Malformed == {Raw(t, FALSE, "none", NoBody) : t \in RecordTypes}

RawRecords ==
    FileHeaders \cup GroupHeaders \cup AccountIdents \cup Details
    \cup Continuations \cup Trailers \cup Malformed

----------------------------------------------------------------------------
(* ast::Record::parse: the field-level decoding of one raw record.  It     *)
(* yields the typed record, or the field-parse error naming the record.    *)
Ok(v) == [ok |-> TRUE, v |-> v]
Err(e) == [ok |-> FALSE, v |-> e]

Record_parse(raw) ==
    IF raw.ok
    THEN Ok([type |-> raw.type, tail |-> raw.tail, body |-> raw.body])
    ELSE Err([type |-> raw.type])

----------------------------------------------------------------------------
(* ast::convert::Converter: the nesting state machine of section 4.2.      *)
(* state is Start, InFile, InGroup, InAccount or Done; file, group and     *)
(* account are the open entities; pending is the mergeable target of a     *)
(* continuation record: "none", or the multi-valued field ("text", "dist") *)
(* of the entity the previous record appended ("detail" or "info").        *)
Converter_new ==
    [state |-> "Start", file |-> None, group |-> None, account |-> None,
     pending |-> "none", target |-> "none"]

ConvertError(c, rec) == [state |-> c.state, seen |-> rec.type]

(* MergeText putting the continuation line in front of the list. *)
MergeText_prepend(detail, line) ==
    [detail EXCEPT !.text = Some(<<line>> \o UnwrapOr(detail.text, <<>>))]

(* The free-text list of a detail, extended by one continuation line. *)
MergeText(detail, line) ==
    [detail EXCEPT !.text = Some(UnwrapOr(detail.text, <<>>) \o <<line>>)]

(* A distributed-availability list, extended by one continuation pair. *)
MergeDist(holder, line) ==
    [holder EXCEPT !.funds =
        Some(DistributedAvailD(Unwrap(holder.funds).dists
                               \o <<DistributedAvailDistribution(line)>>))]

(* The open account with the continuation merged into its last detail or   *)
(* its last inline AccountInfo. *)
MergeContinuation(c, line) ==
    LET a == Unwrap(c.account)
        nd == Len(a.transaction_details)
        ni == Len(a.infos)
    IN  IF c.target = "detail"
        THEN [a EXCEPT !.transaction_details[nd] =
                IF c.pending = "text" THEN MergeText(@, line) ELSE MergeDist(@, line)]
        ELSE [a EXCEPT !.infos[ni] = MergeDist(@, line)]

(* The open group appended to the file's group sequence. *)
AppendGroup(file, group) == [file EXCEPT !.groups = Append(@, group)]

(* AppendAccount putting the closed account in front of the sequence. *)
AppendAccount_prepend(group, account) ==
    [group EXCEPT !.accounts = <<account>> \o @]

(* The open account appended to the group's account sequence. *)
AppendAccount(group, account) == [group EXCEPT !.accounts = Append(@, account)]

(* A new transaction detail appended to the open account. *)
AppendDetail(account, detail) ==
    [account EXCEPT !.transaction_details = Append(@, detail)]

(* One record through the state machine: Ok(converter) or Err(ConvertError). *)
Converter_process(c, rec) ==
    CASE c.state = "Start" /\ rec.type = "FileHeader" ->
            Ok([c EXCEPT !.state = "InFile", !.file = Some(rec.body),
                         !.pending = "none", !.target = "none"])
      [] c.state = "InFile" /\ rec.type = "GroupHeader" ->
            Ok([c EXCEPT !.state = "InGroup", !.group = Some(rec.body),
                         !.pending = "none", !.target = "none"])
      [] c.state = "InFile" /\ rec.type = "FileTrailer" /\ c.group = None ->
            Ok([c EXCEPT !.state = "Done", !.pending = "none", !.target = "none"])
      [] c.state = "InGroup" /\ rec.type = "AccountIdent" ->
            Ok([c EXCEPT !.state = "InAccount", !.account = Some(rec.body),
                         !.pending = rec.tail,
                         !.target = IF rec.tail = "none" THEN "none" ELSE "info"])
      [] c.state = "InGroup" /\ rec.type = "GroupTrailer" ->
            Ok([c EXCEPT !.state = "InFile",
                         !.file = Some(AppendGroup(Unwrap(c.file), Unwrap(c.group))),
                         !.group = None, !.pending = "none", !.target = "none"])
      [] c.state = "InAccount" /\ rec.type = "TransactionDetail" ->
            Ok([c EXCEPT !.account = Some(AppendDetail(Unwrap(c.account), rec.body)),
                         !.pending = rec.tail, !.target = "detail"])
      [] c.state = "InAccount" /\ rec.type = "Continuation" /\ c.pending # "none" ->
            Ok([c EXCEPT !.account =
                    Some(MergeContinuation(c, Unwrap(rec.body.line)))])
      [] c.state = "InAccount" /\ rec.type = "AccountTrailer" ->
            Ok([c EXCEPT !.state = "InGroup",
                         !.group = Some(AppendAccount(Unwrap(c.group), Unwrap(c.account))),
                         !.account = None, !.pending = "none", !.target = "none"])
      [] OTHER -> Err(ConvertError(c, rec))

(* The converter at end of input: the file when Done, nothing otherwise. *)
Converter_finish(c) == IF c.state = "Done" THEN c.file ELSE None

----------------------------------------------------------------------------
(* enum FileProcessError *)
Parse(kind) == [tag |-> "Parse", e |-> [kind |-> kind]]
FieldParse(e) == [tag |-> "FieldParse", e |-> e]
UnfinishedConversion == [tag |-> "UnfinishedConversion", e |-> [nothing |-> TRUE]]
Conversion(e) == [tag |-> "Conversion", e |-> e]

(* parsed_records with the field-parse error dropped: the record is       *)
(* handed on as if its fields had decoded.                                 *)
parsed_records_lenient(raw) ==
    Ok([type |-> raw.type, tail |-> raw.tail, body |-> raw.body])

(* File::process, the closure over raw_records.iter():                     *)
(*     |r| ast::Record::parse(r).map_err(FileProcessError::FieldParse)     *)
parsed_records(raw) ==
    LET r == Record_parse(raw)
    IN  IF r.ok THEN r ELSE Err(FieldParse(r.v))

(* conversion_error with the None arm reporting a Conversion error. *)
conversion_error_none_as_conversion(e) ==
    Conversion(IF IsSome(e) THEN Unwrap(e) ELSE [state |-> "End", seen |-> "End"])

(* conversion_error with every arm reporting UnfinishedConversion. *)
conversion_error_all_unfinished(e) == UnfinishedConversion

(* File::process, the closure handed to fold_results:                      *)
(*     |e| match e { Some(e) => Conversion(e), None => UnfinishedConversion } *)
conversion_error(e) ==
    IF IsSome(e) THEN Conversion(Unwrap(e)) ELSE UnfinishedConversion

(* parse::file(file).to_result().map_err(FileProcessError::Parse): the     *)
(* buffer is split into raw records, or the framing is rejected as a whole *)
(* before any record is decoded.                                           *)
ParseFile ==
    /\ pc = "lex"
    /\ \E framed \in BOOLEAN :
          IF framed
          THEN /\ pc' = "convert"
               /\ result' = None
          ELSE /\ pc' = "done"
               /\ result' = Some(Err(Parse("Framing")))
    /\ UNCHANGED <<consumed, exhausted, conv, subject, origin, answer>>

(* Converter::fold_results, one turn of its loop: the next item of the     *)
(* lazy iterator is an error (returned as it is), or a record the          *)
(* converter accepts, or one it rejects.                                   *)
FoldRecord ==
    /\ pc = "convert"
    /\ Len(consumed) < MaxRecords
    /\ \E raw \in RawRecords :
          LET item == parsed_records(raw)
              step == Converter_process(conv, item.v)
          IN  /\ consumed' = Append(consumed, raw)
              /\ IF ~item.ok
                 THEN /\ result' = Some(item)
                      /\ pc' = "done"
                      /\ conv' = conv
                 ELSE IF ~step.ok
                 THEN /\ result' = Some(Err(conversion_error(Some(step.v))))
                      /\ pc' = "done"
                      /\ conv' = conv
                 ELSE /\ result' = None
                      /\ pc' = "convert"
                      /\ conv' = step.v
    /\ UNCHANGED <<exhausted, subject, origin, answer>>

(* Converter::fold_results, the iterator is exhausted. *)
FoldEnd ==
    /\ pc = "convert"
    /\ exhausted' = TRUE
    /\ pc' = "done"
    /\ result' = LET fin == Converter_finish(conv)
                 IN  IF IsSome(fin)
                     THEN Some(Ok(Unwrap(fin)))
                     ELSE Some(Err(conversion_error(None)))
    /\ UNCHANGED <<consumed, conv, subject, origin, answer>>

NoSubject == [kind |-> "none"]

Init ==
    /\ pc = "lex"
    /\ consumed = <<>>
    /\ exhausted = FALSE
    /\ conv = Converter_new
    /\ result = None
    /\ subject = NoSubject
    /\ origin = NoSubject
    /\ answer = None

Next == ParseFile \/ FoldRecord \/ FoldEnd

Spec == Init /\ [][Next]_vars

----------------------------------------------------------------------------
(* The structural queries of the document model, applied to values of the  *)
(* model: a Group holding one Account, a BaiDateTime, a plain-date         *)
(* BaiDateOrTime, an AccountInfo.                                          *)
OptCurrencies == {None} \cup {Some(c) : c \in Currencies}

I64Samples ==
    {I64(FALSE, Limbs(0, 0, 0, 0)), I64(FALSE, Limbs(500, 0, 0, 0)),
     I64(TRUE, Limbs(500, 0, 0, 0)),
     I64(FALSE, Limbs(2^16 - 1, 2^16 - 1, 2^16 - 1, 2^15 - 1)),
     I64(TRUE, Limbs(0, 0, 0, 2^15))}

GroupSubjects ==
    {[kind |-> "Group",
      value |-> AppendAccount(Group(None, gc), Account("A1", ac, <<>>))] :
        gc \in OptCurrencies, ac \in OptCurrencies}
DateTimeSubjects ==
    {[kind |-> "BaiDateTime", value |-> BaiDateTime_from_datetime(NaiveDateTime(d, t))] :
        d \in Days, t \in Times}
    \cup {[kind |-> "BaiDateTime", value |-> BaiDateTime_from_date(d)] : d \in Days}
DateSubjects ==
    {[kind |-> "BaiDateOrTime", value |-> BaiDateOrTime_from_date(d)] : d \in Days}
InfoSubjects ==
    {[kind |-> "AccountInfo", value |-> AccountInfo_Summary(Some(a), None)] : a \in U64}
    \cup {[kind |-> "AccountInfo", value |-> AccountInfo_Status(Some(a), None)] :
            a \in I64Samples}
    \cup {[kind |-> "AccountInfo", value |-> AccountInfo_Summary(None, None)],
          [kind |-> "AccountInfo", value |-> AccountInfo_Status(None, None)]}

Subjects == GroupSubjects \cup DateTimeSubjects \cup DateSubjects \cup InfoSubjects

Answer(q, r) == Some([q |-> q, r |-> r])

QueryFrame == UNCHANGED <<pc, consumed, exhausted, conv, result, origin>>

(* group.currency_def() *)
QueryGroupCurrency ==
    /\ subject.kind = "Group"
    /\ answer = None
    /\ answer' = Answer("Group::currency_def", Group_currency_def(subject.value))
    /\ UNCHANGED subject
    /\ QueryFrame

(* account.currency_def(group.currency_def()), for the group's account *)
QueryAccountCurrency ==
    /\ subject.kind = "Group"
    /\ answer = None
    /\ answer' = Answer("Account::currency_def",
                        Account_currency_def(subject.value.accounts[1],
                                             Group_currency_def(subject.value)))
    /\ UNCHANGED subject
    /\ QueryFrame

(* BaiDateOrTime::from(datetime): the BaiDateTime is moved into the result *)
Downgrade ==
    /\ subject.kind = "BaiDateTime"
    /\ subject' = [kind |-> "BaiDateOrTime", value |-> BaiDateOrTime_from(subject.value)]
    /\ UNCHANGED answer
    /\ QueryFrame

(* date_or_time.date() *)
QueryDate ==
    /\ subject.kind = "BaiDateOrTime"
    /\ answer = None
    /\ answer' = Answer("BaiDateOrTime::date", BaiDateOrTime_date(subject.value))
    /\ UNCHANGED subject
    /\ QueryFrame

(* date_or_time.date_time() *)
QueryDateTime ==
    /\ subject.kind = "BaiDateOrTime"
    /\ answer = None
    /\ answer' = Answer("BaiDateOrTime::date_time", BaiDateOrTime_date_time(subject.value))
    /\ UNCHANGED subject
    /\ QueryFrame

(* date_or_time.date_time().and_then(|dt| dt.time()): the time component *)
QueryTime ==
    /\ subject.kind = "BaiDateOrTime"
    /\ answer = None
    /\ answer' = LET dt == BaiDateOrTime_date_time(subject.value)
                 IN  Answer("BaiDateTime::time",
                            IF IsSome(dt) THEN BaiDateTime_time(Unwrap(dt)) ELSE None)
    /\ UNCHANGED subject
    /\ QueryFrame

(* info.amount_money(account_cur) *)
QueryAmountMoney ==
    /\ subject.kind = "AccountInfo"
    /\ answer = None
    /\ \E cur \in {"USD", "EUR"} :
          answer' = Answer("AccountInfo::amount_money",
                           AccountInfo_amount_money(subject.value, cur))
    /\ UNCHANGED subject
    /\ QueryFrame

InitQuery ==
    /\ pc = "idle"
    /\ consumed = <<>>
    /\ exhausted = FALSE
    /\ conv = Converter_new
    /\ result = None
    /\ subject \in Subjects
    /\ origin = subject
    /\ answer = None

NextQuery ==
    \/ QueryGroupCurrency
    \/ QueryAccountCurrency
    \/ Downgrade
    \/ QueryDate
    \/ QueryDateTime
    \/ QueryTime
    \/ QueryAmountMoney

SpecQuery == InitQuery /\ [][NextQuery]_vars

----------------------------------------------------------------------------
(* The transitions section 4.2 lists, as a table over the record sequence  *)
(* alone: the nesting state a sequence of well-formed records leads to,    *)
(* "Reject" once a record is no listed transition.                         *)
Listed(st, type, mergeable) ==
    CASE st = "Start" /\ type = "FileHeader" -> "InFile"
      [] st = "InFile" /\ type = "GroupHeader" -> "InGroup"
      [] st = "InFile" /\ type = "FileTrailer" -> "Done"
      [] st = "InGroup" /\ type = "AccountIdent" -> "InAccount"
      [] st = "InGroup" /\ type = "GroupTrailer" -> "InFile"
      [] st = "InAccount" /\ type = "TransactionDetail" -> "InAccount"
      [] st = "InAccount" /\ type = "Continuation" /\ mergeable -> "InAccount"
      [] st = "InAccount" /\ type = "AccountTrailer" -> "InGroup"
      [] OTHER -> "Reject"

(* The records read from record i on, in nesting state st, with the        *)
(* previous record mergeable or not: the first record that fails field     *)
(* decoding or is no listed transition (0 if none), the nesting state      *)
(* before it (at the end, if none), and whether a continuation could       *)
(* still be merged at the end.                                             *)
RECURSIVE Scan(_, _, _, _)
Scan(recs, i, st, mergeable) ==
    IF i > Len(recs)
    THEN [first |-> 0, st |-> st, mergeable |-> mergeable]
    ELSE IF ~recs[i].ok \/ Listed(st, recs[i].type, mergeable) = "Reject"
    THEN [first |-> i, st |-> st, mergeable |-> mergeable]
    ELSE Scan(recs, i + 1, Listed(st, recs[i].type, mergeable),
              IF recs[i].type = "Continuation" THEN mergeable
              ELSE recs[i].tail # "none")

(* Whether a continuation after these records has a mergeable record       *)
(* before it: the last record that is no continuation ends in a            *)
(* multi-valued field.                                                     *)
RECURSIVE Mergeable(_)
Mergeable(recs) ==
    IF recs = <<>> THEN FALSE
    ELSE IF Last(recs).type = "Continuation" THEN Mergeable(Front(recs))
    ELSE Last(recs).tail # "none"

Nesting(recs) ==
    LET scan == Scan(recs, 1, "Start", FALSE)
    IN  IF scan.first = 0 THEN scan.st ELSE "Reject"

(* C1: when the record sequence ends in any nesting state other than Done  *)
(* (Start, InFile, InGroup, InAccount), File::process returns the          *)
(* UnfinishedConversion error, never a File.                               *)
C1_UnfinishedAtEnd ==
    (exhausted /\ Nesting(consumed) # "Done")
        => (pc = "done" /\ result = Some(Err(UnfinishedConversion)))

(* The input ends right after a group-header record. *)
C1_Witness ==
    /\ exhausted
    /\ consumed # <<>>
    /\ Last(consumed).type = "GroupHeader"
    /\ result = Some(Err(UnfinishedConversion))

----------------------------------------------------------------------------
(* The first record of the sequence that fails field decoding or is no     *)
(* listed transition; 0 when there is none.                                *)
FirstError(recs) == Scan(recs, 1, "Start", FALSE).first

(* The error File::process owes to record i of the sequence, the first     *)
(* that fails.                                                             *)
ErrorOf(recs, i) ==
    IF ~recs[i].ok
    THEN FieldParse([type |-> recs[i].type])
    ELSE Conversion([state |-> Scan(recs, 1, "Start", FALSE).st, seen |-> recs[i].type])

(* C2: File::process returns a complete File or exactly one error: the     *)
(* error of the earliest record that fails field decoding or violates a    *)
(* structural rule, with no record after it pulled; a File is returned     *)
(* only for a sequence that ends in Done.                                  *)
C2_FirstErrorReported ==
    LET i == FirstError(consumed)
    IN  /\ i # 0 => /\ i = Len(consumed)
                    /\ pc = "done"
                    /\ result = Some(Err(ErrorOf(consumed, i)))
        /\ (i = 0 /\ IsSome(result) /\ Unwrap(result).ok)
              => /\ exhausted
                 /\ Nesting(consumed) = "Done"
        /\ (i = 0 /\ IsSome(result) /\ ~Unwrap(result).ok)
              => Unwrap(result).v.tag \in {"Parse", "UnfinishedConversion"}

(* A record that fails field decoding arrives inside an open account, after *)
(* several accepted records.                                                *)
C2_Witness ==
    /\ Len(consumed) >= 4
    /\ ~Last(consumed).ok
    /\ Nesting(Front(consumed)) = "InAccount"
    /\ result = Some(Err(FieldParse([type |-> Last(consumed).type])))

(* C3: a well-formed record that is no listed transition of the current    *)
(* nesting state opens and closes nothing and yields a Conversion error;   *)
(* Done is entered only from InFile with no open group, on a file trailer. *)
C3_UnlistedRejected ==
    [][ /\ (/\ consumed' # consumed
            /\ Last(consumed').ok
            /\ Listed(conv.state, Last(consumed').type, Mergeable(consumed)) = "Reject")
           => (/\ conv' = conv
               /\ pc' = "done"
               /\ IsSome(result')
               /\ ~Unwrap(result').ok
               /\ Unwrap(result').v.tag = "Conversion")
        /\ (conv'.state = "Done" /\ conv.state # "Done")
           => (/\ conv.state = "InFile"
               /\ conv.group = None
               /\ conv.account = None
               /\ Last(consumed').type = "FileTrailer")
      ]_vars

(* A file trailer arrives while an account is open and is rejected. *)
C3_Witness ==
    /\ consumed # <<>>
    /\ Last(consumed).type = "FileTrailer"
    /\ Last(consumed).ok
    /\ conv.state = "InAccount"
    /\ IsSome(conv.account)
    /\ result = Some(Err(Conversion([state |-> "InAccount", seen |-> "FileTrailer"])))

(* C4: Done is terminal: every well-formed record after the accepted file  *)
(* trailer fails the conversion with a Conversion error, and no sequence   *)
(* with a record after the file trailer yields a File.                     *)
C4_DoneTerminal ==
    (consumed # <<>> /\ Nesting(Front(consumed)) = "Done")
        => /\ pc = "done"
           /\ IsSome(result)
           /\ ~Unwrap(result).ok
           /\ Last(consumed).ok => Unwrap(result).v.tag = "Conversion"

(* A second file header arrives after the file trailer. *)
C4_Witness ==
    /\ Len(consumed) >= 3
    /\ Nesting(Front(consumed)) = "Done"
    /\ Last(consumed).type = "FileHeader"
    /\ Last(consumed).ok
    /\ result = Some(Err(Conversion([state |-> "Done", seen |-> "FileHeader"])))

----------------------------------------------------------------------------
(* The continuation records that directly follow record i. *)
RECURSIVE ContsAfter(_, _)
ContsAfter(recs, i) ==
    IF i < Len(recs) /\ recs[i + 1].type = "Continuation" /\ recs[i + 1].ok
    THEN <<Unwrap(recs[i + 1].body.line)>> \o ContsAfter(recs, i + 1)
    ELSE <<>>

(* The last record of the sequence that is no continuation; 0 if none. *)
RECURSIVE LastHead(_)
LastHead(recs) ==
    IF recs = <<>> THEN 0
    ELSE IF Last(recs).type = "Continuation" THEN LastHead(Front(recs))
    ELSE Len(recs)

(* The indices in lo..hi of the records of a type, in ascending order. *)
RECURSIVE Ascending(_)
Ascending(S) ==
    IF S = {} THEN <<>>
    ELSE LET m == CHOOSE i \in S : \A j \in S : i <= j
         IN  <<m>> \o Ascending(S \ {m})

Between(recs, type, lo, hi) ==
    Ascending({i \in (lo + 1)..(hi - 1) : recs[i].type = type})

(* The first record of a type after record i; Len + 1 if none. *)
NextOf(recs, type, i) ==
    LET later == {j \in (i + 1)..Len(recs) : recs[j].type = type}
    IN  IF later = {} THEN Len(recs) + 1 ELSE CHOOSE j \in later : \A k \in later : j <= k

(* C5: a transaction-detail record followed by n >= 1 continuation records *)
(* carrying text yields one TransactionDetail in the current account (one  *)
(* per detail record, none per continuation), whose text list holds the    *)
(* merged lines in arrival order and has their number as its length.       *)
C5_ContinuationMerge ==
    LET k == LastHead(consumed)
        lines == ContsAfter(consumed, k)
    IN  (/\ FirstError(consumed) = 0
         /\ k # 0
         /\ k < Len(consumed)
         /\ consumed[k].type = "TransactionDetail"
         /\ consumed[k].tail = "text")
        => LET a == NextOf(consumed, "AccountIdent", 0)
               opened == CHOOSE i \in 1..k :
                            /\ consumed[i].type = "AccountIdent"
                            /\ \A j \in (i + 1)..k : consumed[j].type # "AccountIdent"
               details == Unwrap(conv.account).transaction_details
               own == UnwrapOr(consumed[k].body.text, <<>>)
           IN  /\ a <= k
               /\ Len(details) = Len(Between(consumed, "TransactionDetail", opened, k + 1))
               /\ Last(details).text = Some(own \o lines)
               /\ Len(Unwrap(Last(details).text)) = Len(own) + (Len(consumed) - k)

(* A detail with its own text line, then two continuations l2, l1. *)
C5_Witness ==
    /\ Len(consumed) >= 3
    /\ FirstError(consumed) = 0
    /\ consumed[Len(consumed) - 2].type = "TransactionDetail"
    /\ consumed[Len(consumed) - 2].body.text = Some(<<"l0">>)
    /\ ContsAfter(consumed, Len(consumed) - 2) = <<"l2", "l1">>
    /\ Last(Unwrap(conv.account).transaction_details).text = Some(<<"l0", "l2", "l1">>)
    /\ Len(Unwrap(conv.account).transaction_details) = 1

(* C6: a continuation record with no preceding mergeable record (first     *)
(* record, or after a file header, a group header, a record without a      *)
(* multi-valued tail, or any trailer) yields a Conversion error and no     *)
(* document; no continuation changes an account that is already closed.    *)
C6_ContinuationWithoutTarget ==
    [][ (/\ consumed' # consumed
         /\ Last(consumed').ok
         /\ Last(consumed').type = "Continuation")
        => /\ ~Mergeable(consumed)
              => (/\ conv' = conv
                  /\ pc' = "done"
                  /\ result' = Some(Err(Conversion(
                        [state |-> conv.state, seen |-> "Continuation"]))))
           /\ conv'.file = conv.file
           /\ conv'.group = conv.group
      ]_vars

(* A continuation arrives right after the trailer of an account that holds *)
(* a detail, and is rejected.                                              *)
C6_Witness ==
    /\ Len(consumed) >= 2
    /\ Last(consumed).type = "Continuation"
    /\ Last(consumed).ok
    /\ consumed[Len(consumed) - 1].type = "AccountTrailer"
    /\ IsSome(conv.group)
    /\ Len(Unwrap(conv.group).accounts) >= 1
    /\ Len(Unwrap(conv.group).accounts[1].transaction_details) >= 1
    /\ result = Some(Err(Conversion([state |-> "InGroup", seen |-> "Continuation"])))

----------------------------------------------------------------------------
(* The document the record sequence describes, read off the sequence by    *)
(* position: an entity holds the records that arrive between its own       *)
(* record and its trailer, in the order of their arrival.                  *)
ExpectedDists(recs, i) ==
    LET lines == ContsAfter(recs, i)
    IN  Some(DistributedAvailD(
            [j \in 1..Len(lines) |-> DistributedAvailDistribution(lines[j])]))

ExpectedDetail(recs, i) ==
    LET lines == ContsAfter(recs, i)
        body == recs[i].body
    IN  IF recs[i].tail = "dist"
        THEN [body EXCEPT !.funds = ExpectedDists(recs, i)]
        ELSE IF lines = <<>> THEN body
        ELSE [body EXCEPT !.text = Some(UnwrapOr(body.text, <<>>) \o lines)]

ExpectedAccount(recs, i) ==
    LET details == Between(recs, "TransactionDetail", i, NextOf(recs, "AccountTrailer", i))
        body == recs[i].body
        infos == IF recs[i].tail = "dist"
                 THEN [body.infos EXCEPT ![Len(body.infos)].funds = ExpectedDists(recs, i)]
                 ELSE body.infos
    IN  [body EXCEPT
            !.infos = infos,
            !.transaction_details =
                [m \in 1..Len(details) |-> ExpectedDetail(recs, details[m])]]

ExpectedGroup(recs, i) ==
    LET accounts == Between(recs, "AccountIdent", i, NextOf(recs, "GroupTrailer", i))
    IN  [recs[i].body EXCEPT
            !.accounts = [j \in 1..Len(accounts) |-> ExpectedAccount(recs, accounts[j])]]

ExpectedFile(recs) ==
    LET groups == Between(recs, "GroupHeader", 0, Len(recs) + 1)
    IN  [recs[1].body EXCEPT
            !.groups = [k \in 1..Len(groups) |-> ExpectedGroup(recs, groups[k])]]

(* C7: in every document produced, each group-header, account-identifier   *)
(* and transaction-detail record gives exactly one Group, Account and      *)
(* TransactionDetail, under the File, Group and Account open when it       *)
(* arrived, and groups, accounts and transaction_details are in            *)
(* transmission order.                                                     *)
C7_NestingAndOrder ==
    (IsSome(result) /\ Unwrap(result).ok)
        => Unwrap(result).v = ExpectedFile(consumed)

(* A document whose one group holds two accounts with different numbers,   *)
(* the later number first.                                                 *)
C7_Witness ==
    /\ IsSome(result)
    /\ Unwrap(result).ok
    /\ Len(Unwrap(result).v.groups) = 1
    /\ LET accounts == Unwrap(result).v.groups[1].accounts
       IN  /\ Len(accounts) = 2
           /\ accounts[1].customer_account = "A2"
           /\ accounts[2].customer_account = "A1"

----------------------------------------------------------------------------
Asked(q) == IsSome(answer) /\ Unwrap(answer).q = q
Answered == Unwrap(answer).r

(* C8: the effective currency of an Account is its own currency when       *)
(* present, else its Group's currency, else the system default USD; the    *)
(* Group's effective currency is its own or USD; the queries leave the     *)
(* stored optional currencies as they were (absent stays absent).          *)
C8_CurrencyCascade ==
    LET g == origin.value
        a == g.accounts[1]
    IN  /\ Asked("Account::currency_def")
            => /\ Answered = IF a.currency # None THEN a.currency[1]
                             ELSE IF g.currency # None THEN g.currency[1]
                             ELSE "USD"
               /\ subject = origin
        /\ Asked("Group::currency_def")
            => /\ Answered = IF g.currency # None THEN g.currency[1] ELSE "USD"
               /\ subject = origin

(* An account without a currency in a group with currency EUR is asked. *)
C8_Witness ==
    /\ Asked("Account::currency_def")
    /\ origin.value.currency = Some("EUR")
    /\ origin.value.accounts[1].currency = None
    /\ subject.value.accounts[1].currency = None
    /\ Answered = "EUR"

(* The date and time a BaiDateTime was built from. *)
DateComponent(x) == IF x.v = "DateTime" THEN x.dt.date ELSE x.d
TimeComponent(x) == IF x.v = "DateTime" THEN Some(x.dt.time) ELSE None

(* C9: a BaiDateTime downgraded to BaiDateOrTime keeps its variant (timed  *)
(* instant or end of day, never a plain date) and its date; date_time() on *)
(* the result gives the BaiDateTime back; every BaiDateOrTime has a date   *)
(* component, and a time component only in the date+time variant.          *)
C9_DowngradeRoundTrip ==
    /\ (origin.kind = "BaiDateTime" /\ subject.kind = "BaiDateOrTime")
        => /\ subject.value.enum = "BaiDateOrTime"
           /\ subject.value.v = origin.value.v
           /\ Asked("BaiDateOrTime::date_time") => Answered = Some(origin.value)
    /\ (origin.kind = "BaiDateOrTime" /\ Asked("BaiDateOrTime::date_time"))
        => Answered = None
    /\ Asked("BaiDateOrTime::date") => Answered = DateComponent(origin.value)
    /\ Asked("BaiDateTime::time")
        => Answered = IF origin.kind = "BaiDateTime"
                      THEN TimeComponent(origin.value) ELSE None

(* An end-of-day BaiDateTime is downgraded and asked back. *)
C9_Witness ==
    /\ origin.kind = "BaiDateTime"
    /\ origin.value.v = "DateEndOfDay"
    /\ subject.kind = "BaiDateOrTime"
    /\ Asked("BaiDateOrTime::date_time")
    /\ Answered = Some(origin.value)

(* C10: AccountInfo::amount_money returns None exactly when the amount is  *)
(* absent; for a Summary holding the unsigned 64-bit amount a it returns   *)
(* money of exactly a minor units, never negative; for a Status holding    *)
(* the signed amount s it returns exactly s.                               *)
C10_AmountMoneyExact ==
    Asked("AccountInfo::amount_money")
        => LET info == origin.value
           IN  /\ (Answered = None) <=> (info.amount = None)
               /\ (info.info = "Summary" /\ IsSome(info.amount))
                    => /\ ~Unwrap(Answered).amount.neg
                       /\ Unwrap(Answered).amount = I64(FALSE, Unwrap(info.amount))
               /\ (info.info = "Status" /\ IsSome(info.amount))
                    => Unwrap(Answered).amount = Unwrap(info.amount)
====
